---- MODULE Spec2Model ----
(***************************************************************************)
(* A model of the retrieval-and-ranking code of the ML portfolio RAG       *)
(* backends:                                                               *)
(*   backend-fastapi/main_complete.py  (cosine_similarity,                 *)
(*                                      find_relevant_chunks, load_models) *)
(*   backend-fastapi/rag_endpoints.py  (/search, /chat, /chat-complete)    *)
(*   backend-fastapi/app_for_hf_space.py (retrieve_context, /chat)         *)
(* and of the sentiment service:                                          *)
(*   backend/main.py  (ModelCache, PerformanceMonitor, /api/sentiment)     *)
(* the simple sentiment service:                                           *)
(*   backend/simple_main.py  (load_model, /api/sentiment)                  *)
(* and the authentication service:                                         *)
(*   backend-fastapi/main_auth.py  (register, login, get_current_user)     *)
(*                                                                         *)
(* Arithmetic.  Embeddings are vectors of small integers.  A cosine        *)
(* c = dot / (|a| |b|) is kept as the exact fraction sgn(c) * c^2          *)
(* = dot*|dot| / (|a|^2 |b|^2): the map c |-> sgn(c) c^2 is strictly       *)
(* increasing, so two scores compare (and tie) exactly as the cosines do.  *)
(* Floating-point rounding is not modelled; the ties the model produces    *)
(* come from records with identical embeddings, which tie in floating      *)
(* point as well.                                                          *)
(***************************************************************************)
EXTENDS Integers, Sequences, FiniteSets, TLC

VARIABLES
    app,                  \* which program this process runs: "complete"
                          \* (main_complete.py with rag_endpoints.py), "hf"
                          \* (app_for_hf_space.py), "sentiment"
                          \* (backend/main.py), "simple"
                          \* (backend/simple_main.py) or "auth"
                          \* (backend-fastapi/main_auth.py)
    phase,                \* "start" before load_models has run, then "serving"
    embedding_model,      \* None or Loaded
    workspace_embeddings, \* the corpus: a sequence of records
    llm,                  \* main_complete.py: None or Loaded
    llm_model,            \* app_for_hf_space.py: None or Loaded
    llm_tokenizer,        \* app_for_hf_space.py: None or Loaded
    topk_ties,            \* how this build's torch.topk orders equal scores
    last,                 \* the request being answered: the retrieval call it
                          \* made and the response it produced (NoCall when idle)
    rerun,                \* how the last call relates to the call before it
    startup,              \* what load_models met: whether the embedding model
                          \* loaded, and the corpus file it found
    calls,                \* the retrieval calls in flight in concurrent
                          \* threads: for each caller, the frame of its call
    \* backend/main.py, ModelCache
    cache,                \* self.cache: a dict, as its items in insertion order
    access_times,         \* self.access_times: likewise
    clock,                \* the last reading of time.time()
    cache_op,             \* the last call on the cache and what it returned
    live,                 \* for each name, the model last set under it and
                          \* neither evicted nor cleared since (None if none)
    \* backend/main.py, PerformanceMonitor
    request_times,        \* len(self.request_times), a deque of bounded length
    request_counts,       \* self.request_counts: status -> count (0: no key)
    error_counts,         \* self.error_counts: error type -> count (0: no key)
    recorded,             \* how many calls of record_request and of
                          \* record_error this monitor has received
    \* backend/main.py, the sentiment service
    sentiment_pipeline,   \* the global of backend/main.py, and the one of
                          \* the same name of simple_main.py: None or Loaded
    reply,                \* the response of the /api/sentiment request being
                          \* answered (NoReply when there is none)
    \* backend/simple_main.py
    worker,               \* for each thread of the pool, the request it is
                          \* handling and where its handler is
    loads,                \* how many calls of load_model have returned True
    \* backend-fastapi/main_auth.py
    users_db,             \* the dict users_db: email -> user (NoUser: no key)
    auth,                 \* for each client, its request in flight and the
                          \* response to it
    registered            \* for each email, how many register calls have
                          \* succeeded (2: two or more)

vars == <<app, phase, embedding_model, workspace_embeddings, llm, llm_model,
          llm_tokenizer, topk_ties, last, rerun, startup, calls,
          cache, access_times, clock, cache_op, live,
          request_times, request_counts, error_counts, recorded,
          sentiment_pipeline, reply, worker, loads, users_db, auth, registered>>

\* the state of the ModelCache of backend/main.py
CacheVars == <<cache, access_times, clock, cache_op, live>>

\* the state of the PerformanceMonitor of backend/main.py
MonitorVars == <<request_times, request_counts, error_counts, recorded>>

\* the model global and the request in progress of backend/main.py
ServiceVars == <<sentiment_pipeline, reply>>

\* the state of simple_main.py beside its model global
SimpleVars == <<worker, loads>>

\* the state of main_auth.py
AuthVars == <<users_db, auth, registered>>

\* the state of the sentiment and authentication programs, which the
\* retrieval programs do not share
BackendVars == <<CacheVars, MonitorVars, ServiceVars, SimpleVars, AuthVars>>

None == "None"
Loaded == "Loaded"

----------------------------------------------------------------------------
(* Bounds of the model. *)

\* the longest corpus load_models reads
MaxCorpus == 3
\* the largest max_chunks / top_k a request asks for
MaxK == 2
\* the longest corpus of the runs of the HTTP endpoints (SpecChat) and of
\* the runs that repeat a call (SpecRerun)
MaxSmallCorpus == 2

----------------------------------------------------------------------------
(* Data. *)

\* the metadata keys a record of workspace_embeddings.json carries
MetaKeys == {"id", "filePath", "chunkIndex", "content"}

\* A record of the corpus file: the embedding (<<>> when the key is absent or
\* the list is empty) and the metadata keys it has.  json.load validates
\* nothing, so a record may lack a key or carry an embedding of any length.
Rec(e, ks) == [embedding |-> e, keys |-> ks]

RecordPool ==
    { Rec(<<1, 0>>, MetaKeys),          \* "a" of the scenario
      Rec(<<0, 1>>, MetaKeys),          \* "b": orthogonal to the query <<1, 0>>
      Rec(<<9, 1>>, MetaKeys),          \* "c": 10 * <<0.9, 0.1>>
      Rec(<<0, 0>>, MetaKeys),          \* an all-zero embedding
      Rec(<<1, 0, 0>>, MetaKeys),       \* an embedding of another dimensionality
      Rec(<<1, 0>>, MetaKeys \ {"content"}),  \* a record without "content"
      Rec(<<>>, MetaKeys) }             \* a record without an embedding

RECURSIVE SeqsUpTo(_, _)
SeqsUpTo(S, n) ==
    IF n = 0 THEN {<<>>}
    ELSE LET shorter == SeqsUpTo(S, n - 1)
         IN  shorter \cup {Append(s, x) : s \in {t \in shorter : Len(t) = n - 1}, x \in S}

\* what json.load can return for the corpus file
Corpora == SeqsUpTo(RecordPool, MaxCorpus)

\* the vectors embedding_model.encode can return for a query text
QueryVectors == {<<1, 0>>, <<0, 0>>, <<1, 0, 0>>}

\* what a call of embedding_model.encode does: it returns a vector, or raises
EncodeOutcomes ==
    {[ok |-> TRUE, vec |-> v] : v \in QueryVectors} \cup {[ok |-> FALSE, vec |-> <<>>]}

\* thresholds a caller passes, as fractions: 0, 0.3 (the code's default) and
\* 1.1 (above every cosine)
Frac(n, d) == [num |-> n, den |-> d]
Thresholds == {Frac(0, 1), Frac(3, 10), Frac(11, 10)}

----------------------------------------------------------------------------
(* Scores. *)

Abs(x) == IF x < 0 THEN -x ELSE x

RECURSIVE DotFrom(_, _, _)
DotFrom(a, b, i) ==
    IF i > Len(a) THEN 0 ELSE a[i] * b[i] + DotFrom(a, b, i + 1)

\* np.dot of two vectors of equal length
Dot(a, b) == DotFrom(a, b, 1)

\* np.linalg.norm, squared
NormSq(a) == Dot(a, a)

\* A score: "num" (the fraction num/den, den > 0, of sgn(c) c^2), "nan", or
\* "raise" (the computation raised).
Num(n, d) == [kind |-> "num", num |-> n, den |-> d]
NaN == [kind |-> "nan", num |-> 0, den |-> 1]
Raise == [kind |-> "raise", num |-> 0, den |-> 1]

\* the score of a cosine given as the fraction t.num / t.den
ScoreOf(t) == Num(t.num * Abs(t.num), t.den * t.den)

\* s >= t as Python and numpy compare floats: any comparison with nan is False
GE(s, t) ==
    /\ s.kind = "num"
    /\ t.kind = "num"
    /\ s.num * t.den >= t.num * s.den

\* s > t
GT(s, t) ==
    /\ s.kind = "num"
    /\ t.kind = "num"
    /\ s.num * t.den > t.num * s.den

\* main_complete.py cosine_similarity: np.dot raises ValueError on vectors of
\* different lengths; with a zero norm the division is 0.0/0.0, which numpy
\* evaluates to nan (a RuntimeWarning, no exception).
cosine_similarity(a, b) ==
    IF Len(a) # Len(b) THEN Raise
    ELSE IF NormSq(a) * NormSq(b) = 0 THEN NaN
    ELSE Num(Dot(a, b) * Abs(Dot(a, b)), NormSq(a) * NormSq(b))

\* app_for_hf_space.py: util.cos_sim of the query against one normalised row.
\* torch.nn.functional.normalize divides by max(norm, 1e-12), so a zero
\* vector stays zero and its score is 0; torch.mm raises on a shape mismatch.
cos_sim(a, b) ==
    IF Len(a) # Len(b) THEN Raise
    ELSE IF NormSq(a) * NormSq(b) = 0 THEN Num(0, 1)
    ELSE Num(Dot(a, b) * Abs(Dot(a, b)), NormSq(a) * NormSq(b))

----------------------------------------------------------------------------
(* Ranking. *)

Entry(i, s) == [idx |-> i, score |-> s]

\* x goes behind every entry that does not score below it, so entries that
\* tie keep the order in which they were inserted
RECURSIVE InsertDesc(_, _)
InsertDesc(sorted, x) ==
    IF sorted = <<>> THEN <<x>>
    ELSE IF GT(x.score, Head(sorted).score) THEN <<x>> \o sorted
    ELSE <<Head(sorted)>> \o InsertDesc(Tail(sorted), x)

RECURSIVE Reverse(_)
Reverse(s) == IF s = <<>> THEN <<>> ELSE Reverse(Tail(s)) \o <<Head(s)>>

RECURSIVE SortDescFrom(_, _, _)
SortDescFrom(items, i, acc) ==
    IF i > Len(items) THEN acc
    ELSE SortDescFrom(items, i + 1, InsertDesc(acc, items[i]))

\* the sort without reverse=True: ascending
SortAscending(items) == Reverse(SortDescFrom(items, 1, <<>>))

\* list.sort(key=similarity, reverse=True): descending and stable (Python
\* keeps the original order of equal keys under reverse=True as well)
SortDesc(items) == SortDescFrom(items, 1, <<>>)

\* s[:n] for n >= 0
Take(s, n) == SubSeq(s, 1, IF n < Len(s) THEN n ELSE Len(s))

HasEmbedding(doc) == doc.embedding # <<>>

\* what a call gives back: the matches, the number of encode calls it made,
\* whether an exception left the function, whether it swallowed one
Outcome(res, n, r, c) == [result |-> res, encodes |-> n, raised |-> r, caught |-> c]

\* the loop without its "if similarity >= threshold": every score that is
\* a number is kept
RECURSIVE SimilaritiesUnfiltered(_, _, _)
SimilaritiesUnfiltered(q, threshold, i) ==
    IF i > Len(workspace_embeddings) THEN <<>>
    ELSE LET doc == workspace_embeddings[i]
             similarity == cosine_similarity(q, doc.embedding)
         IN  (IF HasEmbedding(doc) /\ similarity.kind = "num"
                THEN <<Entry(i, similarity)>> ELSE <<>>)
             \o SimilaritiesUnfiltered(q, threshold, i + 1)

\* main_complete.py find_relevant_chunks, lines 113-122: the entries of the
\* records that have an embedding and whose similarity is >= threshold
RECURSIVE SimilaritiesFrom(_, _, _)
SimilaritiesFrom(q, threshold, i) ==
    IF i > Len(workspace_embeddings) THEN <<>>
    ELSE LET doc == workspace_embeddings[i]
             similarity == cosine_similarity(q, doc.embedding)
         IN  (IF HasEmbedding(doc) /\ GE(similarity, ScoreOf(threshold))
                THEN <<Entry(i, similarity)>> ELSE <<>>)
             \o SimilaritiesFrom(q, threshold, i + 1)

\* main_complete.py find_relevant_chunks, lines 113-138, with the query
\* embedding q in hand: score and filter, sort, cut to max_chunks, build the
\* DocumentChunks.  np.dot raising on a length mismatch and a KeyError of the
\* DocumentChunk construction both end in the handler's "return []".
RankChunks(q, max_chunks, threshold) ==
    IF \E i \in 1..Len(workspace_embeddings) :
          /\ HasEmbedding(workspace_embeddings[i])
          /\ cosine_similarity(q, workspace_embeddings[i].embedding) = Raise
    THEN Outcome(<<>>, 1, FALSE, TRUE)
    ELSE LET similarities == SortDesc(SimilaritiesFrom(q, threshold, 1))
             top == Take(similarities, max_chunks)
         IN  IF \E j \in 1..Len(top) : workspace_embeddings[top[j].idx].keys # MetaKeys
             THEN Outcome(<<>>, 1, FALSE, TRUE)
             ELSE Outcome(top, 1, FALSE, FALSE)

\* find_relevant_chunks with encode called inside the loop over the corpus,
\* once for every record
find_relevant_chunks_encode_in_loop(enc, max_chunks, threshold) ==
    IF embedding_model = None \/ workspace_embeddings = <<>>
    THEN Outcome(<<>>, 0, FALSE, FALSE)
    ELSE IF ~enc.ok THEN Outcome(<<>>, 1, FALSE, TRUE)
    ELSE [RankChunks(enc.vec, max_chunks, threshold)
             EXCEPT !.encodes = Len(workspace_embeddings)]

\* main_complete.py find_relevant_chunks(query, max_chunks, threshold), where
\* enc is what encode(query) does.  Every exception inside the try block,
\* encode's included, ends in "return []".
find_relevant_chunks(enc, max_chunks, threshold) ==
    IF embedding_model = None \/ workspace_embeddings = <<>>
    THEN Outcome(<<>>, 0, FALSE, FALSE)
    ELSE IF ~enc.ok THEN Outcome(<<>>, 1, FALSE, TRUE)
    ELSE RankChunks(enc.vec, max_chunks, threshold)

\* the ways a build of torch.topk may order equal scores
TieOrders == {"low_index_first", "high_index_first"}

\* a topk that orders equal scores afresh at every call
TopkTieOrderPerCall == TieOrders

\* the order in which this process's torch.topk returns equal scores: fixed
\* by the build (a sequential CPU kernel), not chosen per call
TopkTieOrder == {topk_ties}

\* torch.topk(scores, k) (largest, sorted): the k highest scores in
\* descending order; the order among equal scores is not specified by torch
topk(scores, k, ties) ==
    IF ties = "low_index_first" THEN Take(SortDesc(scores), k)
    ELSE Take(SortDesc(Reverse(scores)), k)

\* the keys retrieve_context reads of a selected record (lines 131-133)
ContextKeys == {"filePath", "chunkIndex", "content"}

\* app_for_hf_space.py retrieve_context, lines 120-137, with the query
\* embedding q in hand.  Nothing is caught here: a record without
\* "embedding" (KeyError), embeddings of unequal lengths (torch.tensor
\* raises), a query of another length (torch.mm raises) and a selected record
\* without a key all leave the function as an exception.
TopContext(q, top_k, ties) ==
    IF \E i \in 1..Len(workspace_embeddings) :
          \/ ~HasEmbedding(workspace_embeddings[i])
          \/ cos_sim(q, workspace_embeddings[i].embedding) = Raise
    THEN Outcome(<<>>, 1, TRUE, FALSE)
    ELSE LET n == Len(workspace_embeddings)
             cosine_scores == [i \in 1..n |->
                                 Entry(i, cos_sim(q, workspace_embeddings[i].embedding))]
             top_results == topk(cosine_scores, IF top_k < n THEN top_k ELSE n, ties)
         IN  IF \E j \in 1..Len(top_results) :
                    ~(ContextKeys \subseteq workspace_embeddings[top_results[j].idx].keys)
             THEN Outcome(<<>>, 1, TRUE, FALSE)
             ELSE Outcome(top_results, 1, FALSE, FALSE)

\* retrieve_context without its first "if": None.encode raises, and so
\* does normalising an empty tensor
retrieve_context_unguarded(enc, top_k, ties) ==
    IF embedding_model = None THEN Outcome(<<>>, 0, TRUE, FALSE)
    ELSE IF ~enc.ok \/ workspace_embeddings = <<>> THEN Outcome(<<>>, 1, TRUE, FALSE)
    ELSE TopContext(enc.vec, top_k, ties)

\* app_for_hf_space.py retrieve_context(query, top_k); encode is called
\* outside any try block
retrieve_context(enc, top_k, ties) ==
    IF embedding_model = None \/ workspace_embeddings = <<>>
    THEN Outcome(<<>>, 0, FALSE, FALSE)
    ELSE IF ~enc.ok THEN Outcome(<<>>, 1, TRUE, FALSE)
    ELSE TopContext(enc.vec, top_k, ties)

----------------------------------------------------------------------------
(* Requests and responses. *)

\* What a client sees of a response: the HTTP status, the "method" field of
\* the body ("" when the body has none), whether the body carries the
\* retrieved chunks (relevant_chunks / context_used), and those chunks.
Resp(status, method, fields, chunks) ==
    [status |-> status, method |-> method, context_fields |-> fields, chunks |-> chunks,
     lines |-> <<>>]

\* The response of a StreamingResponse over a generator: what a client sees
\* is the sequence of the JSON lines the generator yields, given here by
\* their "method" fields; the method of the response is that of its last
\* line.
StreamResp(lines) ==
    [status |-> 200, method |-> IF lines = <<>> THEN "" ELSE lines[Len(lines)],
     context_fields |-> FALSE, chunks |-> <<>>, lines |-> lines]

\* a plain function call has no HTTP response
NoResp == Resp(0, "", FALSE, <<>>)

\* recorded for a request that never reached encode
NoEncode == [ok |-> TRUE, vec |-> <<>>]

\* recorded for a request that never called the retrieval function
NoOutcome == Outcome(<<>>, 0, FALSE, FALSE)

\* the threshold recorded for a call that takes none (the spec's default, -1)
NoThreshold == Frac(-1, 1)

\* A request: the operation, whether it called the retrieval function, the
\* inputs of that call (what encode does, k, threshold), its outcome, and the
\* response.
Call(op, called, enc, k, th, out, resp) ==
    [op |-> op, called |-> called, enc |-> enc, k |-> k, th |-> th,
     out |-> out, resp |-> resp]

\* a request whose handler never called the retrieval function
Uncalled(op, resp) == Call(op, FALSE, NoEncode, 0, NoThreshold, NoOutcome, resp)

NoCall == Uncalled("none", NoResp)

Idle == last = NoCall

SameInputs(c, d) ==
    /\ c.op = d.op
    /\ c.called /\ d.called
    /\ c.enc = d.enc
    /\ c.k = d.k
    /\ c.th = d.th

\* how call c relates to the call before it: "first" when the inputs differ,
\* else whether the two outcomes agree
Rerun(c) ==
    IF ~SameInputs(c, last) THEN "first"
    ELSE IF c.out = last.out THEN "same" ELSE "differs"

\* rag_endpoints.py search_documents (GET /search)
search_documents(enc, max_chunks, threshold) ==
    IF embedding_model = None
    THEN Uncalled("search_documents", Resp(503, "", FALSE, <<>>))
    ELSE LET out == find_relevant_chunks(enc, max_chunks, threshold)
         IN  Call("search_documents", TRUE, enc, max_chunks, threshold, out,
                  Resp(200, "", TRUE, out.result))

\* rag_endpoints.py chat (POST /chat): the response is a stream of the
\* generated tokens and nothing else; llm(prompt) raising is a 500.
chat(use_rag, enc, max_chunks, threshold, llm_ok) ==
    IF llm = None THEN Uncalled("chat", Resp(503, "", FALSE, <<>>))
    ELSE LET send == IF llm_ok THEN Resp(200, "", FALSE, <<>>)
                     ELSE Resp(500, "", FALSE, <<>>)
         IN  IF use_rag /\ embedding_model # None /\ workspace_embeddings # <<>>
             THEN Call("chat", TRUE, enc, max_chunks, threshold,
                       find_relevant_chunks(enc, max_chunks, threshold), send)
             ELSE Uncalled("chat", send)

\* rag_endpoints.py chat_complete (POST /chat-complete): a RAGResponse with
\* relevant_chunks and context_used
chat_complete(use_rag, enc, max_chunks, threshold, llm_ok) ==
    IF llm = None THEN Uncalled("chat_complete", Resp(503, "", FALSE, <<>>))
    ELSE IF use_rag /\ embedding_model # None /\ workspace_embeddings # <<>>
    THEN LET out == find_relevant_chunks(enc, max_chunks, threshold)
         IN  Call("chat_complete", TRUE, enc, max_chunks, threshold, out,
                  IF llm_ok THEN Resp(200, "", TRUE, out.result)
                  ELSE Resp(500, "", FALSE, <<>>))
    ELSE Uncalled("chat_complete",
                  IF llm_ok THEN Resp(200, "", TRUE, <<>>)
                  ELSE Resp(500, "", FALSE, <<>>))

\* a generate_stream_response without its try block: an exception of the
\* retrieval or of the generation ends the stream before any line
generate_stream_response_unguarded(out, gen_ok) ==
    LET context_used == out.result
    IN  IF out.raised THEN <<>>
        ELSE IF context_used # <<>> /\ llm_model # None /\ llm_tokenizer # None
        THEN (IF gen_ok THEN <<"rag_llm">> ELSE <<>>)
        ELSE IF context_used # <<>> /\ llm_model = None THEN <<"rag_no_llm">>
        ELSE <<"no_context_found">>

\* app_for_hf_space.py generate_stream_response, lines 164-241: the lines
\* the generator yields, by their methods, when the retrieval call has the
\* outcome out; gen_ok is whether tokenising and generating run without
\* raising.  Each branch of the "if" ends in its one yield; an exception
\* raised before it is caught and answered with the line of the handler.
generate_stream_response(out, gen_ok) ==
    LET context_used == out.result
    IN  IF out.raised THEN <<"error">>
        ELSE IF context_used # <<>> /\ llm_model # None /\ llm_tokenizer # None
        THEN (IF gen_ok THEN <<"rag_llm">> ELSE <<"error">>)
        ELSE IF context_used # <<>> /\ llm_model = None THEN <<"rag_no_llm">>
        ELSE <<"no_context_found">>

\* app_for_hf_space.py chat_endpoint (POST /chat): a StreamingResponse over
\* generate_stream_response, whose lines carry response, processing_time
\* and method
chat_endpoint(enc, max_context_chunks, ties, gen_ok) ==
    LET out == retrieve_context(enc, max_context_chunks, ties)
    IN  Call("chat_endpoint", TRUE, enc, max_context_chunks, NoThreshold, out,
             StreamResp(generate_stream_response(out, gen_ok)))

\* the threads that call the retrieval function at the same time
Callers == {"t1", "t2"}

\* The frame of a retrieval call in flight: where the call is (pc), the
\* function, its arguments, what encode did, and what the call returns.
Frame(pc, op, k, th, enc, out) ==
    [pc |-> pc, op |-> op, k |-> k, th |-> th, enc |-> enc, out |-> out]

\* the caller is in no call
NoFrame == Frame("idle", "none", 0, NoThreshold, NoEncode, NoOutcome)

----------------------------------------------------------------------------
(* backend/main.py: ModelCache. *)

\* A Python dict, as the sequence of its items [k, v] in insertion order:
\* assigning to a key the dict has keeps the key's place, a new key goes
\* last.
DictKeys(d) == {d[i].k : i \in 1..Len(d)}

DictGet(d, key) == d[CHOOSE i \in 1..Len(d) : d[i].k = key].v

DictSet(d, key, value) ==
    IF key \in DictKeys(d)
    THEN [i \in 1..Len(d) |-> IF d[i].k = key THEN [k |-> key, v |-> value] ELSE d[i]]
    ELSE Append(d, [k |-> key, v |-> value])

RECURSIVE DictDel(_, _)
DictDel(d, key) ==
    IF d = <<>> THEN <<>>
    ELSE IF Head(d).k = key THEN DictDel(Tail(d), key)
    ELSE <<Head(d)>> \o DictDel(Tail(d), key)

\* min(d.keys(), key=lambda k: d[k]): the first key, in the order of the
\* dict, whose value is the smallest
MinKey(d) ==
    d[CHOOSE i \in 1..Len(d) :
          /\ \A j \in 1..Len(d) : d[i].v <= d[j].v
          /\ \A j \in 1..(i - 1) : d[i].v < d[j].v].k

\* self.max_cache_size
max_cache_size == 3

\* the last reading of time.time() the runs reach
MaxClock == 3

\* the model names the callers use: one more than the cache holds
ModelNames == {"a", "b", "c", "d"}

\* the models a caller stores under a name: two for "a", so that a model
\* can be replaced, one for the others
ModelsFor(model_name) == IF model_name = "a" THEN {"m1", "m2"} ELSE {"m1"}

\* ModelCache.get_model at time now: on a hit the access time is refreshed
get_model(model_name, now) ==
    IF model_name \in DictKeys(cache)
    THEN [result |-> DictGet(cache, model_name),
          access_times |-> DictSet(access_times, model_name, now)]
    ELSE [result |-> None, access_times |-> access_times]

\* a set_model that leaves the model of a name already cached in place
set_model_keeps_first(model_name, model, now) ==
    LET full == Len(cache) >= max_cache_size
        oldest_model == IF full THEN MinKey(access_times) ELSE None
        kept == IF full THEN DictDel(cache, oldest_model) ELSE cache
    IN  [cache |-> IF model_name \in DictKeys(kept) THEN kept
                   ELSE DictSet(kept, model_name, model),
         access_times |-> DictSet(IF full THEN DictDel(access_times, oldest_model)
                                  ELSE access_times, model_name, now),
         evicted |-> oldest_model]

\* a set_model without the "if len(self.cache) >= self.max_cache_size"
\* block: nothing is ever removed
set_model_unbounded(model_name, model, now) ==
    [cache |-> DictSet(cache, model_name, model),
     access_times |-> DictSet(access_times, model_name, now),
     evicted |-> None]

\* ModelCache.set_model at time now: when the cache holds max_cache_size
\* entries (whether or not model_name is one of them) the entry with the
\* smallest access time is deleted first; "evicted" is its name, or None
set_model(model_name, model, now) ==
    LET full == Len(cache) >= max_cache_size
        oldest_model == IF full THEN MinKey(access_times) ELSE None
    IN  [cache |-> DictSet(IF full THEN DictDel(cache, oldest_model) ELSE cache,
                           model_name, model),
         access_times |-> DictSet(IF full THEN DictDel(access_times, oldest_model)
                                  ELSE access_times, model_name, now),
         evicted |-> oldest_model]

\* ModelCache.clear_cache
clear_cache == [cache |-> <<>>, access_times |-> <<>>]

\* a call on the cache: the method, its arguments, what get_model returned
\* and what set_model evicted
CacheOp(op, name, model, result, evicted) ==
    [op |-> op, name |-> name, model |-> model, result |-> result, evicted |-> evicted]

NoCacheOp == CacheOp("none", None, None, None, None)

----------------------------------------------------------------------------
(* backend/main.py: PerformanceMonitor. *)

\* deque(maxlen=1000)
request_times_maxlen == 1000

\* the number of successful requests a monitor that has been in service
\* for a while has recorded
BusyRequests == 20001

\* the most calls of record_request, and of record_error, a run makes on a
\* monitor after the start of the run
MaxRecorded == 3

\* the statuses analyze_sentiment records requests under
Statuses == {"success", "http_error", "error"}

\* the error types backend/main.py records
ErrorTypes == {"model_not_loaded", "empty_text", "request_timeout", "no_results",
               "processing_error", "model_loading_error"}

RECURSIVE SumOver(_, _)
SumOver(f, keys) ==
    IF keys = {} THEN 0
    ELSE LET key == CHOOSE x \in keys : TRUE
         IN  f[key] + SumOver(f, keys \ {key})

\* sum(d.values()) of a dict of counts
SumValues(f) == SumOver(f, DOMAIN f)

\* A PerformanceMonitor: the three fields and the calls it has received.
Monitor(times, requests, errors, received) ==
    [request_times |-> times, request_counts |-> requests, error_counts |-> errors,
     recorded |-> received]

\* PerformanceMonitor(): a new monitor
NewMonitor ==
    Monitor(0, [st \in Statuses |-> 0], [e \in ErrorTypes |-> 0],
            [requests |-> 0, errors |-> 0])

\* a monitor that has recorded BusyRequests successful requests
BusyMonitor ==
    Monitor(request_times_maxlen, [st \in Statuses |-> IF st = "success" THEN BusyRequests ELSE 0],
            [e \in ErrorTypes |-> 0], [requests |-> BusyRequests, errors |-> 0])

\* the monitor of this state
ThisMonitor == Monitor(request_times, request_counts, error_counts, recorded)

\* a record_request that appends the processing time and leaves the count
\* of the status alone
record_request_uncounted(mon, status) ==
    [mon EXCEPT !.request_times = IF @ < request_times_maxlen THEN @ + 1 ELSE @,
                !.recorded.requests = @ + 1]

\* PerformanceMonitor.record_request on the monitor mon: the deque drops its
\* oldest entry once it holds maxlen
record_request(mon, status) ==
    [mon EXCEPT !.request_times = IF @ < request_times_maxlen THEN @ + 1 ELSE @,
                !.request_counts[status] = @ + 1,
                !.recorded.requests = @ + 1]

\* PerformanceMonitor.record_error
record_error(mon, error_type) ==
    [mon EXCEPT !.error_counts[error_type] = @ + 1,
                !.recorded.errors = @ + 1]

\* round(n / d, 0) for n >= 0, d > 0.  Python rounds the float nearest to
\* the quotient: where the quotient lies halfway between two integers the
\* result depends on that float, and tie_up says which way it goes.
RoundDiv(n, d, tie_up) ==
    LET q == (2 * n + d) \div (2 * d)
    IN  IF (2 * n + d) % (2 * d) = 0 /\ ~tie_up THEN q - 1 ELSE q

\* PerformanceMonitor.get_stats on the monitor mon, as far as the requests
\* and errors go: error_rate is in hundredths of a percent (round(x, 2)),
\* and "full" says whether the dict has the keys request_counts and
\* error_counts.
get_stats(mon, tie_up) ==
    IF mon.request_times = 0
    THEN [total_requests |-> 0, error_rate |-> 0, full |-> FALSE]
    ELSE LET total_requests == SumValues(mon.request_counts)
             total_errors == SumValues(mon.error_counts)
         IN  [total_requests |-> total_requests,
              error_rate |-> IF total_requests > 0
                             THEN RoundDiv(total_errors * 10000, total_requests, tie_up)
                             ELSE 0,
              full |-> TRUE]

----------------------------------------------------------------------------
(* backend/main.py: the sentiment service. *)

\* device_manager.optimization_settings["max_length"] on a machine without
\* CUDA
max_length == 256

\* the name load_model caches the pipeline under (it stands for
\* "distilbert-base-uncased-finetuned-sst-2-english")
sentiment_model_name == "a"

\* A request text: the length of request.text and of request.text.strip().
Text(raw, stripped) == [raw |-> raw, stripped |-> stripped]

\* the texts of the requests: empty and over-long ones (which the request
\* model rejects), blanks only, a short text, a text longer than max_length
\* only by its surrounding blanks, and a text longer than max_length
Texts ==
    { Text(0, 0), Text(1001, 1001), Text(3, 0), Text(5, 5),
      Text(max_length + 1, max_length - 1), Text(max_length + 44, max_length + 44) }

\* what running the pipeline under asyncio.wait_for does: it returns
\* results, does not finish within REQUEST_TIMEOUT, returns an empty list,
\* or raises
Inferences == {"ok", "timeout", "no_results", "raises"}

\* The response of a request: the HTTP status, what the inference did
\* ("none" when the handler did not get that far), model_info.truncated,
\* and whether the text given to the pipeline had been cut.
Reply(status, inference, truncated, cut) ==
    [status |-> status, inference |-> inference, truncated |-> truncated, cut |-> cut]

NoReply == Reply(0, "none", FALSE, FALSE)

\* the outcome of a handler: its response and the monitor it leaves
Handled(r, mon) == [reply |-> r, monitor |-> mon]

\* an analyze_sentiment without its "except HTTPException" clause: the
\* HTTPExceptions raised inside the try block end in "except Exception"
analyze_sentiment_one_handler(mon, text, inference) ==
    LET generic == Handled(Reply(500, inference, FALSE, FALSE),
                           record_error(record_request(mon, "error"), "processing_error"))
    IN  IF text.raw < 1 \/ text.raw > 1000
        THEN Handled(Reply(422, "none", FALSE, FALSE), mon)
        ELSE IF sentiment_pipeline = None
        THEN Handled(Reply(503, "none", FALSE, FALSE), record_error(mon, "model_not_loaded"))
        ELSE IF inference = "ok"  /\ text.stripped # 0
        THEN Handled(Reply(200, "ok", text.raw > max_length, text.stripped > max_length),
                     record_request(mon, "success"))
        ELSE generic

\* analyze_sentiment (POST /api/sentiment) with the monitor mon.  The
\* request model rejects a text of fewer than 1 or more than 1000 characters
\* before the handler runs (422).  An HTTPException raised inside the try
\* block is caught by "except HTTPException", which records the request as
\* "http_error" and raises it again.
analyze_sentiment(mon, text, inference) ==
    LET http_error(status, inf, error_type) ==
            Handled(Reply(status, inf, FALSE, FALSE),
                    record_request(record_error(mon, error_type), "http_error"))
    IN  IF text.raw < 1 \/ text.raw > 1000
        THEN Handled(Reply(422, "none", FALSE, FALSE), mon)
        ELSE IF sentiment_pipeline = None
        THEN Handled(Reply(503, "none", FALSE, FALSE), record_error(mon, "model_not_loaded"))
        ELSE IF text.stripped = 0 THEN http_error(400, "none", "empty_text")
        ELSE IF inference = "timeout" THEN http_error(408, "timeout", "request_timeout")
        ELSE IF inference = "no_results" THEN http_error(500, "no_results", "no_results")
        ELSE IF inference = "raises"
        THEN Handled(Reply(500, "raises", FALSE, FALSE),
                     record_error(record_request(mon, "error"), "processing_error"))
        ELSE Handled(Reply(200, "ok", text.raw > max_length, text.stripped > max_length),
                     record_request(mon, "success"))

----------------------------------------------------------------------------
(* backend/simple_main.py: the simple sentiment service.  analyze_sentiment *)
(* is a plain "def", which FastAPI runs in a thread of its pool: the        *)
(* handlers of concurrent requests run in different threads, and their      *)
(* steps interleave.                                                        *)

\* the threads of the pool that handle requests at once
Threads == {"h1", "h2", "h3"}

\* what the model and the input make of the inference of simple_main.py
SimpleInferences == {"ok", "no_results", "raises"}

\* A request in a thread: where its handler is (pc), whether
\* sentiment_pipeline was set when the request arrived, and the status of
\* its response (0 while there is none).
Job(pc, arrived_loaded, status) ==
    [pc |-> pc, arrived_loaded |-> arrived_loaded, status |-> status]

NoJob == Job("idle", FALSE, 0)

\* simple_main.py analyze_sentiment, lines 96-155, the part after the model
\* is there: the status of the response for a text that is or is not empty
\* once stripped
simple_analyze(text_empty, inference) ==
    IF text_empty THEN 400
    ELSE IF inference = "ok" THEN 200
    ELSE 500

-----------------------------------------------------------------------------
(* backend-fastapi/main_auth.py: the authentication service.  Its handlers  *)
(* are "async def" without an await: each runs on the event loop from its   *)
(* first statement to its response without another handler in between.      *)

Emails == {"e1", "e2"}
Passwords == {"p1", "p2"}
Clients == {"c1", "c2"}

\* users_db has no key for the email
NoUser == [email |-> "", password |-> <<>>]

\* hashlib.sha256(password.encode()).hexdigest(): the digest of a password,
\* different for different passwords of Passwords
hash_password(password) == <<"sha256", password>>

verify_password(password, hashed) == hash_password(password) = hashed

\* the payload has no "email" claim
NoClaim == "NoClaim"

\* A bearer token: whether it is a JWT signed with JWT_SECRET, whether its
\* "exp" is in the past, and its "email" claim.
Token(signed, expired, email) == [signed |-> signed, expired |-> expired, email |-> email]

NoToken == Token(FALSE, FALSE, NoClaim)

\* main_auth.py create_jwt_token: a token for the email, valid for an hour
create_jwt_token(email) == Token(TRUE, FALSE, email)

\* The tokens a client sends: tokens the service issued (also before its
\* last restart, when users_db was another), such tokens after their hour,
\* strings that do not verify, and JWTs signed with the secret by another
\* party, whose payload need not have an "email".
Tokens ==
    {create_jwt_token(e) : e \in Emails}
        \cup {Token(TRUE, TRUE, "e1"), Token(FALSE, FALSE, "e1"), Token(TRUE, FALSE, NoClaim)}

\* the outcome of the dependency: the HTTP status it ends the request with
\* (200: none) and the email it returns
Verified(status, email) == [status |-> status, email |-> email]

\* main_auth.py verify_jwt_token: jwt.decode raises InvalidTokenError for a
\* token that does not verify and ExpiredSignatureError for an expired one,
\* both turned into 401; payload["email"] raises KeyError for a payload
\* without the claim, which no handler catches
verify_jwt_token(token) ==
    IF ~token.signed THEN Verified(401, NoClaim)
    ELSE IF token.expired THEN Verified(401, NoClaim)
    ELSE IF token.email = NoClaim THEN Verified(500, NoClaim)
    ELSE Verified(200, token.email)

\* main_auth.py get_current_user
get_current_user(db, token) ==
    LET v == verify_jwt_token(token)
    IN  IF v.status # 200 THEN v
        ELSE IF db[v.email] = NoUser THEN Verified(401, NoClaim)
        ELSE v

\* the endpoints that depend on get_current_user
GuardedEndpoints == {"get_recommendations", "add_rating", "get_profile"}

\* a request to the service
AuthReq(op, email, password, token) ==
    [op |-> op, email |-> email, password |-> password, token |-> token]

AuthRequests ==
    {AuthReq(op, e, p, NoToken) : op \in {"register", "login"}, e \in Emails, p \in Passwords}
        \cup {AuthReq(op, NoClaim, "", t) : op \in GuardedEndpoints, t \in Tokens}

\* the outcome of a handler: the status and the token of its response, the
\* users_db it leaves, and for a guarded endpoint the user it served
AuthOutcome(status, token, db, user) ==
    [status |-> status, token |-> token, users_db |-> db, user |-> user]

\* a register that stores the user without looking for the email first
register_unchecked(db, req) ==
    AuthOutcome(200, create_jwt_token(req.email),
                [db EXCEPT ![req.email] =
                    [email |-> req.email, password |-> hash_password(req.password)]],
                NoClaim)

\* main_auth.py register (and the same function of backend-fastapi/main.py)
register(db, req) ==
    IF db[req.email] # NoUser THEN AuthOutcome(400, NoToken, db, NoClaim)
    ELSE AuthOutcome(200, create_jwt_token(req.email),
                     [db EXCEPT ![req.email] =
                         [email |-> req.email, password |-> hash_password(req.password)]],
                     NoClaim)

\* main_auth.py login
login(db, req) ==
    IF db[req.email] = NoUser THEN AuthOutcome(400, NoToken, db, NoClaim)
    ELSE IF ~verify_password(req.password, db[req.email].password)
    THEN AuthOutcome(400, NoToken, db, NoClaim)
    ELSE AuthOutcome(200, create_jwt_token(req.email), db, NoClaim)

\* main_auth.py get_recommendations, add_rating and get_profile: the
\* dependency, then the body; users_db[current_user] of get_profile raises
\* KeyError if the user is not a key
guarded(db, req) ==
    LET v == get_current_user(db, req.token)
    IN  IF v.status # 200 THEN AuthOutcome(v.status, NoToken, db, NoClaim)
        ELSE IF req.op = "get_profile" /\ db[v.email] = NoUser
        THEN AuthOutcome(500, NoToken, db, v.email)
        ELSE AuthOutcome(200, NoToken, db, v.email)

\* A client's request: "pending" once it has arrived, "done" once its
\* handler has run, with the outcome.
AuthJob(pc, req, outcome) == [pc |-> pc, req |-> req, outcome |-> outcome]

NoAuthOutcome == AuthOutcome(0, NoToken, [e \in Emails |-> NoUser], NoClaim)

NoAuth == AuthJob("idle", AuthReq("none", NoClaim, "", NoToken), NoAuthOutcome)

-----------------------------------------------------------------------------
(* The state machine. *)

\* the corpus file load_models finds
FilesOf(corpora) ==
    {[kind |-> "missing", data |-> <<>>], [kind |-> "unparseable", data |-> <<>>]}
    \cup {[kind |-> "ok", data |-> c] : c \in corpora}

CorpusFiles == FilesOf(Corpora)

SmallCorpusFiles == FilesOf(SeqsUpTo(RecordPool, MaxSmallCorpus))

\* what a run of load_models met
StartupOf(emb_ok, file) ==
    [embedding |-> IF emb_ok THEN "loaded" ELSE "failed", corpus_file |-> file.kind]

\* load_models has not run
NotStarted == [embedding |-> "unread", corpus_file |-> "unread"]

Init ==
    /\ app \in {"complete", "hf", "sentiment", "simple", "auth"}
    /\ phase = "start"
    /\ embedding_model = None
    /\ workspace_embeddings = <<>>
    /\ llm = None
    /\ llm_model = None
    /\ llm_tokenizer = None
    /\ topk_ties \in TieOrders
    /\ last = NoCall
    /\ rerun = "first"
    /\ startup = NotStarted
    /\ calls = [c \in Callers |-> NoFrame]
    /\ cache = <<>>
    /\ access_times = <<>>
    /\ clock = 0
    /\ cache_op = NoCacheOp
    /\ live = [n \in ModelNames |-> None]
    /\ \E mon \in (IF app = "sentiment" THEN {NewMonitor, BusyMonitor} ELSE {NewMonitor}) :
          /\ request_times = mon.request_times
          /\ request_counts = mon.request_counts
          /\ error_counts = mon.error_counts
          /\ recorded = mon.recorded
    /\ sentiment_pipeline = None
    /\ reply = NoReply
    /\ worker = [t \in Threads |-> NoJob]
    /\ loads = 0
    /\ users_db = [e \in Emails |-> NoUser]
    /\ auth = [c \in Clients |-> NoAuth]
    /\ registered = [e \in Emails |-> 0]

\* a load_models with one try block around the three loads, whose handler
\* resets every global: a corpus file that cannot be read undoes the
\* embedding model
LoadCompleteOneTry(files) ==
    /\ app = "complete"
    /\ phase = "start"
    /\ \E emb_ok \in BOOLEAN, file \in files, llm_ok \in BOOLEAN :
          LET all_ok == emb_ok /\ file.kind = "ok"
          IN  /\ embedding_model' = IF all_ok THEN Loaded ELSE None
              /\ workspace_embeddings' = IF all_ok THEN file.data ELSE <<>>
              /\ llm' = IF all_ok /\ llm_ok THEN Loaded ELSE None
              /\ startup' = StartupOf(emb_ok, file)
    /\ phase' = "serving"
    /\ UNCHANGED <<app, llm_model, llm_tokenizer, topk_ties, last, rerun, calls>>
    /\ UNCHANGED BackendVars

\* main_complete.py load_models (run at import, line 77): each of the three
\* loads fails or succeeds on its own
LoadComplete(files) ==
    /\ app = "complete"
    /\ phase = "start"
    /\ \E emb_ok \in BOOLEAN, file \in files, llm_ok \in BOOLEAN :
          /\ embedding_model' = IF emb_ok THEN Loaded ELSE None
          /\ workspace_embeddings' = IF file.kind = "ok" THEN file.data ELSE <<>>
          /\ llm' = IF llm_ok THEN Loaded ELSE None
          /\ startup' = StartupOf(emb_ok, file)
    /\ phase' = "serving"
    /\ UNCHANGED <<app, llm_model, llm_tokenizer, topk_ties, last, rerun, calls>>
    /\ UNCHANGED BackendVars

\* a load_models of app_for_hf_space.py that loads the LLM before its
\* tokenizer and whose handler resets nothing: the model stays loaded when
\* the tokenizer fails
LoadHfModelFirst(files) ==
    /\ app = "hf"
    /\ phase = "start"
    /\ \E emb_ok \in BOOLEAN, file \in files,
          llm_load \in {"ok", "tokenizer_fails", "model_fails"} :
          /\ embedding_model' = IF emb_ok THEN Loaded ELSE None
          /\ workspace_embeddings' = IF file.kind = "ok" THEN file.data ELSE <<>>
          /\ llm_model' = IF llm_load # "model_fails" THEN Loaded ELSE None
          /\ llm_tokenizer' = IF llm_load = "ok" THEN Loaded ELSE None
          /\ startup' = StartupOf(emb_ok, file)
    /\ phase' = "serving"
    /\ UNCHANGED <<app, llm, topk_ties, last, rerun, calls>>
    /\ UNCHANGED BackendVars

\* app_for_hf_space.py load_models (the startup hook): the tokenizer and the
\* model are loaded in one try block whose handler resets both
LoadHf(files) ==
    /\ app = "hf"
    /\ phase = "start"
    /\ \E emb_ok \in BOOLEAN, file \in files,
          llm_load \in {"ok", "tokenizer_fails", "model_fails"} :
          /\ embedding_model' = IF emb_ok THEN Loaded ELSE None
          /\ workspace_embeddings' = IF file.kind = "ok" THEN file.data ELSE <<>>
          /\ llm_model' = IF llm_load = "ok" THEN Loaded ELSE None
          /\ llm_tokenizer' = IF llm_load = "ok" THEN Loaded ELSE None
          /\ startup' = StartupOf(emb_ok, file)
    /\ phase' = "serving"
    /\ UNCHANGED <<app, llm, topk_ties, last, rerun, calls>>
    /\ UNCHANGED BackendVars

LoadModelsComplete == LoadComplete(CorpusFiles)

LoadModelsHf == LoadHf(CorpusFiles)

\* what no request handler assigns
Globals == <<app, phase, embedding_model, workspace_embeddings, llm, llm_model,
             llm_tokenizer, topk_ties, startup>>

\* the state of the retrieval programs
RetrievalVars == <<Globals, last, rerun, calls>>

\* a handler that reads the corpus file again at every request and finds
\* it missing
AnswerReloading(c) ==
    /\ last' = c
    /\ rerun' = Rerun(c)
    /\ workspace_embeddings' = <<>>
    /\ UNCHANGED <<app, phase, embedding_model, llm, llm_model, llm_tokenizer,
                   topk_ties, startup, calls>>
    /\ UNCHANGED BackendVars

\* the request c is answered
Answer(c) ==
    /\ last' = c
    /\ rerun' = Rerun(c)
    /\ UNCHANGED <<Globals, calls>>
    /\ UNCHANGED BackendVars

\* a find_relevant_chunks that pops the first record off the corpus as it
\* scores it
CallFindConsuming(encs, ks, ths) ==
    /\ app = "complete"
    /\ phase = "serving"
    /\ \E enc \in encs, k \in ks, th \in ths :
          LET c == Call("find_relevant_chunks", TRUE, enc, k, th,
                        find_relevant_chunks(enc, k, th), NoResp)
          IN  /\ last' = c
              /\ rerun' = Rerun(c)
    /\ workspace_embeddings' =
          IF workspace_embeddings = <<>> THEN <<>> ELSE Tail(workspace_embeddings)
    /\ UNCHANGED <<app, phase, embedding_model, llm, llm_model, llm_tokenizer,
                   topk_ties, startup, calls>>
    /\ UNCHANGED BackendVars

\* find_relevant_chunks is called with what encode does drawn from encs,
\* max_chunks from ks and threshold from ths
CallFind(encs, ks, ths) ==
    /\ app = "complete"
    /\ phase = "serving"
    /\ \E enc \in encs, k \in ks, th \in ths :
          Answer(Call("find_relevant_chunks", TRUE, enc, k, th,
                      find_relevant_chunks(enc, k, th), NoResp))

\* retrieve_context is called with what encode does drawn from encs and
\* top_k from ks
CallRetrieve(encs, ks) ==
    /\ app = "hf"
    /\ phase = "serving"
    /\ \E enc \in encs, k \in ks, ties \in TopkTieOrder :
          Answer(Call("retrieve_context", TRUE, enc, k, NoThreshold,
                      retrieve_context(enc, k, ties), NoResp))

\* a call of find_relevant_chunks
FindRelevantChunks == Idle /\ CallFind(EncodeOutcomes, 1..MaxK, Thresholds)

\* a call of retrieve_context
RetrieveContext == Idle /\ CallRetrieve(EncodeOutcomes, 1..MaxK)

\* the call of find_relevant_chunks that has just returned is made again,
\* with the same query embedding, max_chunks and threshold
RepeatFind ==
    /\ last.op = "find_relevant_chunks"
    /\ CallFind({last.enc}, {last.k}, {last.th})

\* the call of retrieve_context that has just returned is made again
RepeatRetrieve ==
    /\ last.op = "retrieve_context"
    /\ CallRetrieve({last.enc}, {last.k})

SearchDocuments ==
    /\ Idle
    /\ app = "complete"
    /\ phase = "serving"
    /\ \E enc \in EncodeOutcomes, k \in 1..MaxK, th \in Thresholds :
          Answer(search_documents(enc, k, th))

Chat ==
    /\ Idle
    /\ app = "complete"
    /\ phase = "serving"
    /\ \E use_rag \in BOOLEAN, enc \in EncodeOutcomes, k \in 1..MaxK,
          th \in Thresholds, llm_ok \in BOOLEAN :
          Answer(chat(use_rag, enc, k, th, llm_ok))

ChatComplete ==
    /\ Idle
    /\ app = "complete"
    /\ phase = "serving"
    /\ \E use_rag \in BOOLEAN, enc \in EncodeOutcomes, k \in 1..MaxK,
          th \in Thresholds, llm_ok \in BOOLEAN :
          Answer(chat_complete(use_rag, enc, k, th, llm_ok))

ChatEndpoint ==
    /\ Idle
    /\ app = "hf"
    /\ phase = "serving"
    /\ \E enc \in EncodeOutcomes, k \in 1..MaxK, ties \in TopkTieOrder,
          gen_ok \in BOOLEAN :
          Answer(chat_endpoint(enc, k, ties, gen_ok))

\* the handler returns: the response goes to the caller and the frame, with
\* the query embedding and the matches, is dropped
Respond ==
    /\ ~Idle
    /\ last' = NoCall
    /\ rerun' = "first"
    /\ UNCHANGED <<Globals, calls>>
    /\ UNCHANGED BackendVars

\* the corpus files of the runs with concurrent calls: the scenario's
\* a, b, c; two records that tie; a record of another dimensionality
ConcurrentFiles ==
    FilesOf({ <<Rec(<<1, 0>>, MetaKeys), Rec(<<0, 1>>, MetaKeys), Rec(<<9, 1>>, MetaKeys)>>,
              <<Rec(<<1, 0>>, MetaKeys), Rec(<<1, 0>>, MetaKeys)>>,
              <<Rec(<<1, 0>>, MetaKeys), Rec(<<1, 0, 0>>, MetaKeys)>> })

\* the retrieval function of the program this process runs
RetrievalOp == IF app = "complete" THEN "find_relevant_chunks" ELSE "retrieve_context"

\* Thread c enters the retrieval function and evaluates its first "if"
\* (main_complete.py 106-107, app_for_hf_space.py 114-116), reading the two
\* globals.
BeginCall(c) ==
    /\ phase = "serving"
    /\ calls[c].pc = "idle"
    /\ \E k \in 1..MaxK,
          th \in (IF app = "complete" THEN Thresholds ELSE {NoThreshold}) :
          calls' = [calls EXCEPT ![c] =
                       IF embedding_model = None \/ workspace_embeddings = <<>>
                       THEN Frame("done", RetrievalOp, k, th, NoEncode,
                                  Outcome(<<>>, 0, FALSE, FALSE))
                       ELSE Frame("encode", RetrievalOp, k, th, NoEncode, NoOutcome)]
    /\ UNCHANGED <<Globals, last, rerun>>
    /\ UNCHANGED BackendVars

\* Thread c calls embedding_model.encode (main_complete.py 111,
\* app_for_hf_space.py 118): a raise ends find_relevant_chunks in its
\* handler and leaves retrieve_context as an exception.
EncodeQuery(c) ==
    /\ calls[c].pc = "encode"
    /\ \E enc \in EncodeOutcomes :
          LET f == calls[c]
          IN  calls' = [calls EXCEPT ![c] =
                  IF enc.ok THEN [f EXCEPT !.pc = "rank", !.enc = enc]
                  ELSE [f EXCEPT !.pc = "done", !.enc = enc,
                                 !.out = Outcome(<<>>, 1, f.op = "retrieve_context",
                                                 f.op = "find_relevant_chunks")]]
    /\ UNCHANGED <<Globals, last, rerun>>
    /\ UNCHANGED BackendVars

\* a ranking that pops each record off the shared corpus as it scores it
RankCorpusConsuming(c) ==
    /\ calls[c].pc = "rank"
    /\ LET f == calls[c]
       IN  calls' = [calls EXCEPT ![c] =
               [f EXCEPT !.pc = "done",
                         !.out = IF f.op = "find_relevant_chunks"
                                 THEN RankChunks(f.enc.vec, f.k, f.th)
                                 ELSE TopContext(f.enc.vec, f.k, topk_ties)]]
    /\ workspace_embeddings' = <<>>
    /\ UNCHANGED <<app, phase, embedding_model, llm, llm_model, llm_tokenizer,
                   topk_ties, startup, last, rerun>>
    /\ UNCHANGED BackendVars

\* Thread c scores the corpus against its query embedding, ranks and builds
\* its matches (main_complete.py 113-138, app_for_hf_space.py 120-137),
\* reading workspace_embeddings.
RankCorpus(c) ==
    /\ calls[c].pc = "rank"
    /\ LET f == calls[c]
       IN  calls' = [calls EXCEPT ![c] =
               [f EXCEPT !.pc = "done",
                         !.out = IF f.op = "find_relevant_chunks"
                                 THEN RankChunks(f.enc.vec, f.k, f.th)
                                 ELSE TopContext(f.enc.vec, f.k, topk_ties)]]
    /\ UNCHANGED <<Globals, last, rerun>>
    /\ UNCHANGED BackendVars

\* the call of thread c returns (or raises) to its caller
ReturnCall(c) ==
    /\ calls[c].pc = "done"
    /\ calls' = [calls EXCEPT ![c] = NoFrame]
    /\ UNCHANGED <<Globals, last, rerun>>
    /\ UNCHANGED BackendVars

ConcurrentBegin == \E c \in Callers : BeginCall(c)

ConcurrentEncode == \E c \in Callers : EncodeQuery(c)

ConcurrentRank == \E c \in Callers : RankCorpus(c)

ConcurrentReturn == \E c \in Callers : ReturnCall(c)

\* the readings time.time() can give next: the clock has moved on, or has
\* not (two calls within its resolution)
Readings == {t \in {clock, clock + 1} : t <= MaxClock}

\* a call of model_cache.get_model
GetModel ==
    /\ app = "sentiment"
    /\ UNCHANGED <<MonitorVars, ServiceVars>>
    /\ \E model_name \in ModelNames, now \in Readings :
          LET r == get_model(model_name, now)
          IN  /\ access_times' = r.access_times
              /\ clock' = now
              /\ cache_op' = CacheOp("get_model", model_name, None, r.result, None)
    /\ UNCHANGED <<cache, live>>
    /\ UNCHANGED <<RetrievalVars, SimpleVars, AuthVars>>

\* a call of model_cache.set_model
SetModel ==
    /\ app = "sentiment"
    /\ UNCHANGED <<MonitorVars, ServiceVars>>
    /\ \E model_name \in ModelNames, now \in Readings :
       \E model \in ModelsFor(model_name) :
          LET r == set_model(model_name, model, now)
          IN  /\ cache' = r.cache
              /\ access_times' = r.access_times
              /\ clock' = now
              /\ cache_op' = CacheOp("set_model", model_name, model, None, r.evicted)
              /\ live' = [n \in ModelNames |->
                             IF n = model_name THEN model
                             ELSE IF n = r.evicted THEN None
                             ELSE live[n]]
    /\ UNCHANGED <<RetrievalVars, SimpleVars, AuthVars>>

\* a call of model_cache.clear_cache
ClearCache ==
    /\ app = "sentiment"
    /\ UNCHANGED <<MonitorVars, ServiceVars>>
    /\ cache' = clear_cache.cache
    /\ access_times' = clear_cache.access_times
    /\ cache_op' = CacheOp("clear_cache", None, None, None, None)
    /\ live' = [n \in ModelNames |-> None]
    /\ UNCHANGED clock
    /\ UNCHANGED <<RetrievalVars, SimpleVars, AuthVars>>

\* the monitor becomes mon
SetMonitor(mon) ==
    /\ request_times' = mon.request_times
    /\ request_counts' = mon.request_counts
    /\ error_counts' = mon.error_counts
    /\ recorded' = mon.recorded

\* the calls of record_request (of record_error) made on the monitor since
\* the start of the run
RequestsOfRun ==
    IF recorded.requests >= BusyRequests THEN recorded.requests - BusyRequests
    ELSE recorded.requests

ErrorsOfRun == recorded.errors

\* a call of performance_monitor.record_request
RecordRequest ==
    /\ app = "sentiment"
    /\ RequestsOfRun < MaxRecorded
    /\ \E status \in Statuses : SetMonitor(record_request(ThisMonitor, status))
    /\ UNCHANGED <<RetrievalVars, CacheVars, ServiceVars, SimpleVars, AuthVars>>

\* a call of performance_monitor.record_error
RecordError ==
    /\ app = "sentiment"
    /\ ErrorsOfRun < MaxRecorded
    /\ \E error_type \in ErrorTypes : SetMonitor(record_error(ThisMonitor, error_type))
    /\ UNCHANGED <<RetrievalVars, CacheVars, ServiceVars, SimpleVars, AuthVars>>

\* backend/main.py load_model (the startup hook): the pipeline comes from
\* the cache or is built and cached; if building it raises, the error is
\* recorded and raised again, and the server does not start.
LoadModel ==
    /\ app = "sentiment"
    /\ phase = "start"
    /\ \E built \in BOOLEAN, now \in Readings :
          LET cached == get_model(sentiment_model_name, now)
              stored == set_model(sentiment_model_name, "m1", now)
          IN  IF cached.result # None
              THEN /\ sentiment_pipeline' = Loaded
                   /\ access_times' = cached.access_times
                   /\ clock' = now
                   /\ cache_op' = CacheOp("get_model", sentiment_model_name, None, cached.result, None)
                   /\ phase' = "serving"
                   /\ UNCHANGED <<cache, live, MonitorVars>>
              ELSE IF built
              THEN /\ sentiment_pipeline' = Loaded
                   /\ cache' = stored.cache
                   /\ access_times' = stored.access_times
                   /\ clock' = now
                   /\ cache_op' = CacheOp("set_model", sentiment_model_name, "m1", None, stored.evicted)
                   /\ live' = [n \in ModelNames |->
                                  IF n = sentiment_model_name THEN "m1"
                                  ELSE IF n = stored.evicted THEN None
                                  ELSE live[n]]
                   /\ phase' = "serving"
                   /\ UNCHANGED MonitorVars
              ELSE /\ SetMonitor(record_error(ThisMonitor, "model_loading_error"))
                   /\ clock' = now
                   /\ cache_op' = CacheOp("get_model", sentiment_model_name, None, None, None)
                   /\ phase' = "failed"
                   /\ UNCHANGED <<sentiment_pipeline, cache, access_times, live>>
    /\ UNCHANGED <<app, embedding_model, workspace_embeddings, llm, llm_model,
                   llm_tokenizer, topk_ties, startup, last, rerun, calls, reply,
                   SimpleVars, AuthVars>>

\* the application serves requests although its startup hook has not run
\* (a TestClient that is not used as a context manager)
ServeWithoutStartup ==
    /\ app = "sentiment"
    /\ phase = "start"
    /\ phase' = "serving"
    /\ UNCHANGED <<app, embedding_model, workspace_embeddings, llm, llm_model,
                   llm_tokenizer, topk_ties, startup, last, rerun, calls>>
    /\ UNCHANGED BackendVars

\* a request to POST /api/sentiment is handled
AnalyzeSentiment ==
    /\ app = "sentiment"
    /\ phase = "serving"
    /\ reply = NoReply
    /\ RequestsOfRun < MaxRecorded
    /\ ErrorsOfRun < MaxRecorded
    /\ \E text \in Texts, inference \in Inferences :
          LET h == analyze_sentiment(ThisMonitor, text, inference)
          IN  /\ reply' = h.reply
              /\ SetMonitor(h.monitor)
    /\ UNCHANGED <<RetrievalVars, CacheVars, sentiment_pipeline, SimpleVars, AuthVars>>

\* backend/main.py prometheus_metrics (GET /metrics): the text is built from
\* the keys of get_stats(); stats['error_counts'] is a key of the full
\* dict only, and reading it from the short one raises KeyError, which
\* nothing catches: the server answers 500.
prometheus_metrics(mon, tie_up) ==
    LET stats == get_stats(mon, tie_up)
    IN  IF stats.full THEN Reply(200, "metrics", FALSE, FALSE)
        ELSE Reply(500, "metrics", FALSE, FALSE)

\* a request to GET /metrics is handled
PrometheusMetrics ==
    /\ app = "sentiment"
    /\ phase = "serving"
    /\ reply = NoReply
    /\ \E tie_up \in BOOLEAN : reply' = prometheus_metrics(ThisMonitor, tie_up)
    /\ UNCHANGED <<RetrievalVars, CacheVars, MonitorVars, sentiment_pipeline,
                   SimpleVars, AuthVars>>

\* the response reaches the client
SendReply ==
    /\ reply # NoReply
    /\ reply' = NoReply
    /\ UNCHANGED <<RetrievalVars, CacheVars, MonitorVars, sentiment_pipeline,
                   SimpleVars, AuthVars>>

\* POST /api/performance/reset: performance_monitor is replaced by a new
\* PerformanceMonitor
ResetPerformanceStats ==
    /\ app = "sentiment"
    /\ phase = "serving"
    /\ SetMonitor(NewMonitor)
    /\ UNCHANGED <<RetrievalVars, CacheVars, ServiceVars, SimpleVars, AuthVars>>

\* simple_main.py: a request to POST /api/sentiment arrives and is given to
\* a thread of the pool
SimpleArrive ==
    /\ app = "simple"
    /\ \E t \in Threads :
          /\ worker[t].pc = "idle"
          /\ worker' = [worker EXCEPT ![t] = Job("check", sentiment_pipeline # None, 0)]
    /\ UNCHANGED <<RetrievalVars, CacheVars, MonitorVars, ServiceVars, loads, AuthVars>>

\* simple_main.py line 91: "if sentiment_pipeline is None"
SimpleCheck ==
    /\ app = "simple"
    /\ \E t \in Threads :
          /\ worker[t].pc = "check"
          /\ worker' = [worker EXCEPT ![t].pc =
                           IF sentiment_pipeline = None THEN "load" ELSE "infer"]
    /\ UNCHANGED <<RetrievalVars, CacheVars, MonitorVars, ServiceVars, loads, AuthVars>>

\* simple_main.py load_model, lines 44-54: the pipeline is built and
\* assigned to the global; if building it raises, load_model returns False
\* and the request is answered 503
SimpleBuild ==
    /\ app = "simple"
    /\ \E t \in Threads, built \in BOOLEAN :
          /\ worker[t].pc = "load"
          /\ IF built
             THEN /\ sentiment_pipeline' = Loaded
                  /\ worker' = [worker EXCEPT ![t].pc = "test"]
             ELSE /\ worker' = [worker EXCEPT ![t].pc = "reply", ![t].status = 503]
                  /\ UNCHANGED sentiment_pipeline
    /\ UNCHANGED <<RetrievalVars, CacheVars, MonitorVars, reply, loads, AuthVars>>

\* simple_main.py load_model, lines 56-66: the test call of the pipeline,
\* then "return True"; if the test raises, load_model returns False with
\* the global set
SimpleTest ==
    /\ app = "simple"
    /\ \E t \in Threads, tested \in BOOLEAN :
          /\ worker[t].pc = "test"
          /\ IF tested
             THEN /\ loads' = loads + 1
                  /\ worker' = [worker EXCEPT ![t].pc = "infer"]
             ELSE /\ worker' = [worker EXCEPT ![t].pc = "reply", ![t].status = 503]
                  /\ UNCHANGED loads
    /\ UNCHANGED <<RetrievalVars, CacheVars, MonitorVars, ServiceVars, AuthVars>>

\* simple_main.py analyze_sentiment, lines 96-155
SimpleInfer ==
    /\ app = "simple"
    /\ \E t \in Threads, text_empty \in BOOLEAN, inference \in SimpleInferences :
          /\ worker[t].pc = "infer"
          /\ worker' = [worker EXCEPT ![t].pc = "reply",
                                      ![t].status = simple_analyze(text_empty, inference)]
    /\ UNCHANGED <<RetrievalVars, CacheVars, MonitorVars, ServiceVars, loads, AuthVars>>

\* the response reaches the client and the thread is free again
SimpleRespond ==
    /\ app = "simple"
    /\ \E t \in Threads :
          /\ worker[t].pc = "reply"
          /\ worker' = [worker EXCEPT ![t] = NoJob]
    /\ UNCHANGED <<RetrievalVars, CacheVars, MonitorVars, ServiceVars, loads, AuthVars>>

\* main_auth.py: a request arrives
AuthArrive ==
    /\ app = "auth"
    /\ \E c \in Clients, req \in AuthRequests :
          /\ auth[c].pc = "idle"
          /\ auth' = [auth EXCEPT ![c] = AuthJob("pending", req, NoAuthOutcome)]
    /\ UNCHANGED <<RetrievalVars, CacheVars, MonitorVars, ServiceVars, SimpleVars,
                   users_db, registered>>

\* the handler of a pending request has run and left the outcome h
Handle(c, h) ==
    /\ auth' = [auth EXCEPT ![c].pc = "done", ![c].outcome = h]
    /\ users_db' = h.users_db

\* POST /api/auth/register
Register ==
    /\ app = "auth"
    /\ \E c \in Clients :
          /\ auth[c].pc = "pending"
          /\ auth[c].req.op = "register"
          /\ LET h == register(users_db, auth[c].req)
             IN  /\ Handle(c, h)
                 /\ registered' =
                        IF h.status = 200
                        THEN [registered EXCEPT ![auth[c].req.email] = IF @ < 2 THEN @ + 1 ELSE @]
                        ELSE registered
    /\ UNCHANGED <<RetrievalVars, CacheVars, MonitorVars, ServiceVars, SimpleVars>>

\* POST /api/auth/login
Login ==
    /\ app = "auth"
    /\ \E c \in Clients :
          /\ auth[c].pc = "pending"
          /\ auth[c].req.op = "login"
          /\ Handle(c, login(users_db, auth[c].req))
    /\ UNCHANGED <<RetrievalVars, CacheVars, MonitorVars, ServiceVars, SimpleVars, registered>>

\* GET /api/recommendations, POST /api/user/rating, GET /api/user/profile
Guarded ==
    /\ app = "auth"
    /\ \E c \in Clients :
          /\ auth[c].pc = "pending"
          /\ auth[c].req.op \in GuardedEndpoints
          /\ Handle(c, guarded(users_db, auth[c].req))
    /\ UNCHANGED <<RetrievalVars, CacheVars, MonitorVars, ServiceVars, SimpleVars, registered>>

\* the response reaches the client
AuthRespond ==
    /\ app = "auth"
    /\ \E c \in Clients :
          /\ auth[c].pc = "done"
          /\ auth' = [auth EXCEPT ![c] = NoAuth]
    /\ UNCHANGED <<RetrievalVars, CacheVars, MonitorVars, ServiceVars, SimpleVars,
                   users_db, registered>>

\* The two retrieval functions, called on their own.
Next ==
    \/ LoadModelsComplete
    \/ LoadModelsHf
    \/ FindRelevantChunks
    \/ RetrieveContext
    \/ Respond

Spec == Init /\ [][Next]_vars

\* The HTTP endpoints around them, on corpora of at most MaxSmallCorpus
\* records.
NextChat ==
    \/ LoadComplete(SmallCorpusFiles)
    \/ LoadHf(SmallCorpusFiles)
    \/ SearchDocuments
    \/ Chat
    \/ ChatComplete
    \/ ChatEndpoint
    \/ Respond

SpecChat == Init /\ [][NextChat]_vars

\* The retrieval functions when a call is made a second time, on corpora of
\* at most MaxSmallCorpus records.
NextRerun ==
    \/ LoadComplete(SmallCorpusFiles)
    \/ LoadHf(SmallCorpusFiles)
    \/ FindRelevantChunks
    \/ RetrieveContext
    \/ RepeatFind
    \/ RepeatRetrieve
    \/ Respond

SpecRerun == Init /\ [][NextRerun]_vars

\* The retrieval function called from the threads of Callers at once, the
\* steps of the calls interleaved in every order.
NextConcurrent ==
    \/ LoadComplete(ConcurrentFiles)
    \/ LoadHf(ConcurrentFiles)
    \/ ConcurrentBegin
    \/ ConcurrentEncode
    \/ ConcurrentRank
    \/ ConcurrentReturn

SpecConcurrent == Init /\ [][NextConcurrent]_vars

\* backend/main.py: a ModelCache under any sequence of its three methods.
NextCache ==
    \/ GetModel
    \/ SetModel
    \/ ClearCache

SpecCache == Init /\ [][NextCache]_vars

\* backend/main.py: a PerformanceMonitor under any sequence of
\* record_request and record_error.
NextMonitor ==
    \/ RecordRequest
    \/ RecordError

SpecMonitor == Init /\ [][NextMonitor]_vars

\* backend/main.py: the sentiment service.
NextSentiment ==
    \/ LoadModel
    \/ ServeWithoutStartup
    \/ AnalyzeSentiment
    \/ PrometheusMetrics
    \/ SendReply
    \/ ResetPerformanceStats

SpecSentiment == Init /\ [][NextSentiment]_vars

\* backend/simple_main.py: requests handled in the threads of the pool, the
\* steps of their handlers interleaved in every order.
NextSimple ==
    \/ SimpleArrive
    \/ SimpleCheck
    \/ SimpleBuild
    \/ SimpleTest
    \/ SimpleInfer
    \/ SimpleRespond

SpecSimple == Init /\ [][NextSimple]_vars

\* backend-fastapi/main_auth.py: requests of the clients arriving and
\* handled in every order.
NextAuth ==
    \/ AuthArrive
    \/ Register
    \/ Login
    \/ Guarded
    \/ AuthRespond

SpecAuth == Init /\ [][NextAuth]_vars

----------------------------------------------------------------------------
(* The claims. *)

Min(a, b) == IF a < b THEN a ELSE b

\* the matches the request's retrieval call returned
Matches == last.out.result

\* the request is a call of one of the two retrieval functions
Retrieval == last.op \in {"find_relevant_chunks", "retrieve_context"}

\* the corpus records a, b, c of the spec's scenario
ScenarioCorpus ==
    <<Rec(<<1, 0>>, MetaKeys), Rec(<<0, 1>>, MetaKeys), Rec(<<9, 1>>, MetaKeys)>>

\* the similarity the called function gives record i for the query q
SimilarityOf(q, i) ==
    IF last.op = "retrieve_context" THEN cos_sim(q, workspace_embeddings[i].embedding)
    ELSE cosine_similarity(q, workspace_embeddings[i].embedding)

\* record i has an embedding whose similarity to q passes the threshold
Passes(q, i) ==
    /\ HasEmbedding(workspace_embeddings[i])
    /\ GE(SimilarityOf(q, i), ScoreOf(last.th))

\* C1: on a non-empty corpus the ranked result has at most
\* min(k, corpus size) matches and its scores never increase from one match
\* to the next.
C1_LengthAndOrder ==
    (Retrieval /\ workspace_embeddings # <<>>) =>
        /\ Len(Matches) <= Min(last.k, Len(workspace_embeddings))
        /\ \A j \in 1..(Len(Matches) - 1) : GE(Matches[j].score, Matches[j + 1].score)

\* the scenario: a, b, c against the query <<1, 0>> with k = 2 and threshold
\* 0 gives a, then c
C1_Witness ==
    /\ last.op = "find_relevant_chunks"
    /\ workspace_embeddings = ScenarioCorpus
    /\ last.enc.vec = <<1, 0>>
    /\ last.k = 2
    /\ last.th = Frac(0, 1)
    /\ Len(Matches) = 2
    /\ Matches[1].idx = 1 /\ Matches[2].idx = 3
    /\ GT(Matches[1].score, Matches[2].score)

\* C2: every match scores at least the threshold (-1 where the function
\* takes none), and when no record's similarity reaches the threshold the
\* result is empty.
C2_ThresholdFilter ==
    Retrieval =>
        /\ \A j \in 1..Len(Matches) : GE(Matches[j].score, ScoreOf(last.th))
        /\ (/\ last.enc.ok
            /\ \A i \in 1..Len(workspace_embeddings) : ~Passes(last.enc.vec, i))
           => Matches = <<>>

\* a call at threshold 0.3 that returns "a" and leaves out "b", whose
\* similarity 0 is below the threshold
C2_Witness ==
    /\ last.op = "find_relevant_chunks"
    /\ last.th = Frac(3, 10)
    /\ last.enc.vec = <<1, 0>>
    /\ Len(workspace_embeddings) = 2
    /\ workspace_embeddings[1].embedding = <<0, 1>>
    /\ workspace_embeddings[2].embedding = <<1, 0>>
    /\ last.k = 2
    /\ Len(Matches) = 1
    /\ Matches[1].idx = 2

\* C3: once the query is embedded, the ranker returns exactly min(k, P)
\* matches, P being the number of records whose similarity passes the
\* threshold, and no record left out scores strictly higher than one returned.
C3_ExactlyTopP ==
    (/\ Retrieval
     /\ embedding_model # None
     /\ last.enc.ok
     /\ ~last.out.raised) =>
        LET q == last.enc.vec
            P == Cardinality({i \in 1..Len(workspace_embeddings) : Passes(q, i)})
            returned == {Matches[j].idx : j \in 1..Len(Matches)}
        IN  /\ Len(Matches) = Min(last.k, P)
            /\ \A i \in 1..Len(workspace_embeddings) :
                  (Passes(q, i) /\ i \notin returned) =>
                      \A j \in 1..Len(Matches) : ~GT(SimilarityOf(q, i), Matches[j].score)

\* C4: two matches with the same similarity appear in their corpus order.
C4_TiesKeepCorpusOrder ==
    Retrieval =>
        \A j, l \in 1..Len(Matches) :
            (j < l /\ GE(Matches[j].score, Matches[l].score)
                   /\ GE(Matches[l].score, Matches[j].score))
                => Matches[j].idx < Matches[l].idx

\* the query or the embedding of record i is all zeros (and they have the
\* same length)
ZeroNormPair(q, i) ==
    /\ HasEmbedding(workspace_embeddings[i])
    /\ Len(workspace_embeddings[i].embedding) = Len(q)
    /\ NormSq(q) * NormSq(workspace_embeddings[i].embedding) = 0

\* C5: in a ranking that ends without an exception, at a threshold <= 0 and
\* with k no smaller than the corpus, every record that forms a zero-norm
\* pair with the query is returned, with score 0.
C5_ZeroNormScoresZero ==
    (/\ last.op = "find_relevant_chunks"
     /\ embedding_model # None
     /\ last.enc.ok
     /\ ~last.out.caught
     /\ last.th.num <= 0
     /\ Len(workspace_embeddings) <= last.k) =>
        \A i \in 1..Len(workspace_embeddings) :
            ZeroNormPair(last.enc.vec, i) =>
                \E j \in 1..Len(Matches) :
                    Matches[j].idx = i /\ Matches[j].score = Num(0, 1)

\* C6: when every record of a non-empty corpus has an embedding of one
\* length and the query vector has another, the call ends in an exception
\* that reaches the caller.
C6_MismatchSurfaces ==
    (/\ last.op = "find_relevant_chunks"
     /\ embedding_model # None
     /\ workspace_embeddings # <<>>
     /\ last.enc.ok
     /\ \A i \in 1..Len(workspace_embeddings) :
           /\ HasEmbedding(workspace_embeddings[i])
           /\ Len(workspace_embeddings[i].embedding) # Len(last.enc.vec)) =>
        last.out.raised

\* C7: with the embedding model not loaded or the corpus empty, retrieval
\* returns the empty sequence and no exception occurs.
C7_DegradedReturnsEmpty ==
    (Retrieval /\ (embedding_model = None \/ workspace_embeddings = <<>>)) =>
        /\ Matches = <<>>
        /\ ~last.out.raised
        /\ ~last.out.caught

\* retrieve_context has returned on a loaded corpus with no embedding model
C7_Witness ==
    /\ last.op = "retrieve_context"
    /\ embedding_model = None
    /\ Len(workspace_embeddings) = MaxCorpus
    /\ last.k = MaxK
    /\ Matches = <<>>
    /\ ~last.out.raised

\* the endpoints that answer a chat prompt or a search
Endpoint == last.op \in {"search_documents", "chat", "chat_complete", "chat_endpoint"}

\* the response tells its reader that no context was found
Distinguishable(r) ==
    \/ r.status # 200
    \/ r.method \in {"no_context_found", "error"}
    \/ r.context_fields /\ r.chunks = <<>>

\* C8: when the retrieval call of an endpoint returns no match, the response
\* is recognisable as a no-context response.
C8_EmptyRetrievalIsDistinguishable ==
    (Endpoint /\ last.called /\ ~last.out.raised /\ Matches = <<>>) =>
        Distinguishable(last.resp)

\* C9 as stated: every retrieval call makes exactly one encode call.
C9_ExactlyOneEncode ==
    Retrieval => last.out.encodes = 1

\* C9 as amended: a retrieval call makes one encode call when the embedding
\* model is loaded and the corpus is non-empty, and none otherwise.
C9_EncodeOnceWhenReady ==
    Retrieval =>
        last.out.encodes =
            IF embedding_model # None /\ workspace_embeddings # <<>> THEN 1 ELSE 0

\* find_relevant_chunks has ranked a corpus of MaxCorpus records after one
\* encode call
C9_Witness ==
    /\ last.op = "find_relevant_chunks"
    /\ Len(workspace_embeddings) = MaxCorpus
    /\ Len(Matches) = MaxK
    /\ last.out.encodes = 1

C11_CorpusLoadFailsSoftly ==
    startup.corpus_file \in {"missing", "unparseable"} =>
        /\ phase = "serving"
        /\ workspace_embeddings = <<>>
        /\ embedding_model = (IF startup.embedding = "loaded" THEN Loaded ELSE None)

\* main_complete.py's load_models has met an unparseable corpus file after
\* loading the embedding model, and the service is serving with that model
C11_Witness ==
    /\ app = "complete"
    /\ startup = [embedding |-> "loaded", corpus_file |-> "unparseable"]
    /\ phase = "serving"
    /\ embedding_model = Loaded
    /\ workspace_embeddings = <<>>

\* record i has the five required fields and an embedding of the query's
\* dimensionality
ValidRecord(q, i) ==
    /\ workspace_embeddings[i].keys = MetaKeys
    /\ HasEmbedding(workspace_embeddings[i])
    /\ Len(workspace_embeddings[i].embedding) = Len(q)

\* C12: a record that lacks a required field or has an embedding of another
\* dimensionality never appears in a result, and the result holds
\* min(k, P) matches, P being the number of valid records whose similarity
\* passes the threshold: what ranking the valid records alone gives.
C12_InvalidRecordsDropped ==
    (/\ Retrieval
     /\ embedding_model # None
     /\ last.enc.ok) =>
        LET q == last.enc.vec
            n == Len(workspace_embeddings)
            P == Cardinality({i \in 1..n : ValidRecord(q, i) /\ Passes(q, i)})
        IN  /\ \A j \in 1..Len(Matches) : ValidRecord(q, Matches[j].idx)
            /\ Len(Matches) = Min(last.k, P)

\* the two states of the service
ServiceState ==
    IF embedding_model # None /\ workspace_embeddings # <<>> THEN "ready" ELSE "degraded"

\* C13: once load_models has run, no step (no request handler) changes
\* embedding_model or workspace_embeddings, so the service stays in the one
\* state, ready or degraded, that startup put it in.
C13_StateFixedAtStartup ==
    [][phase = "serving" =>
          /\ phase' = "serving"
          /\ embedding_model' = embedding_model
          /\ workspace_embeddings' = workspace_embeddings
          /\ ServiceState' = ServiceState]_vars

\* /chat-complete has answered from a retrieval on a ready service, which
\* is still ready
C13_Witness ==
    /\ last.op = "chat_complete"
    /\ last.called
    /\ last.resp.status = 200
    /\ startup = [embedding |-> "loaded", corpus_file |-> "ok"]
    /\ ServiceState = "ready"

\* the call reached encode, and encode raised
EmbedFailed ==
    /\ Retrieval
    /\ embedding_model # None
    /\ workspace_embeddings # <<>>
    /\ ~last.enc.ok

\* C14: a retrieval call whose encode raises makes no second encode call
\* and hands its caller the empty match sequence, not an exception.
C14_FailedEmbedGivesEmpty ==
    EmbedFailed =>
        /\ last.out.encodes = 1
        /\ Matches = <<>>
        /\ ~last.out.raised

\* C15: a step in which find_relevant_chunks or retrieve_context returns,
\* with matches, with none, or after an exception, leaves the corpus and
\* the embedding model as they were.
C15_RankingHasNoSideEffects ==
    [][Retrieval' =>
          /\ workspace_embeddings' = workspace_embeddings
          /\ embedding_model' = embedding_model]_vars

\* find_relevant_chunks has swallowed an exception on a corpus of MaxCorpus
\* records, which is still the corpus load_models read
C15_Witness ==
    /\ last.op = "find_relevant_chunks"
    /\ last.out.caught
    /\ last.enc.ok
    /\ embedding_model = Loaded
    /\ Len(workspace_embeddings) = MaxCorpus

\* what the call of frame f returns when it runs with no other call in
\* flight
AloneResult(f) ==
    IF f.op = "find_relevant_chunks" THEN find_relevant_chunks(f.enc, f.k, f.th)
    ELSE retrieve_context(f.enc, f.k, topk_ties)

\* C16: whatever the interleaving of the steps of concurrent retrieval
\* calls, a call that has finished holds the outcome it would have had
\* running alone.
C16_ConcurrentCallsAgreeWithAlone ==
    \A c \in Callers : calls[c].pc = "done" => calls[c].out = AloneResult(calls[c])

\* two calls of find_relevant_chunks are finished at once on the scenario's
\* corpus, one with two matches and one, at k = 1, with one
C16_Witness ==
    /\ app = "complete"
    /\ Len(workspace_embeddings) = 3
    /\ calls["t1"].pc = "done" /\ calls["t2"].pc = "done"
    /\ calls["t1"].k = 2 /\ Len(calls["t1"].out.result) = 2
    /\ calls["t2"].k = 1 /\ Len(calls["t2"].out.result) = 1

\* C17: get_model returns the model last set under the name and neither
\* evicted nor cleared since, and None when there is none (the name was
\* never set, was evicted, or the cache was cleared).
C17_CacheRoundTrip ==
    cache_op.op = "get_model" => cache_op.result = live[cache_op.name]

\* get_model has returned m2 for a name first set to m1 and then to m2,
\* in a cache that holds max_cache_size models
C17_Witness ==
    /\ cache_op.op = "get_model"
    /\ cache_op.result = "m2"
    /\ Len(cache) = max_cache_size
    /\ clock = MaxClock

\* C20: the cache holds at most max_cache_size models and has the keys of
\* access_times.
C20_CacheBoundedAndKeyed ==
    /\ Len(cache) <= max_cache_size
    /\ DictKeys(cache) = DictKeys(access_times)
    /\ Cardinality(DictKeys(cache)) = Len(cache)
    /\ Len(access_times) = Len(cache)

\* set_model has evicted a model from a full cache, which is full again
C20_Witness ==
    /\ cache_op.op = "set_model"
    /\ cache_op.evicted \in ModelNames
    /\ cache_op.evicted # cache_op.name
    /\ Len(cache) = max_cache_size

C19_TimeoutIs408RecordedOnce ==
    [][(reply = NoReply /\ reply'.inference = "timeout") =>
          /\ reply'.status = 408
          /\ error_counts' = [error_counts EXCEPT !["request_timeout"] = @ + 1]
          /\ request_counts' = [request_counts EXCEPT !["http_error"] = @ + 1]
          /\ recorded' = [requests |-> recorded.requests + 1,
                          errors |-> recorded.errors + 1]]_vars

\* the first request of a service has timed out: a 408, with one
\* request_timeout error and one http_error request on the monitor
C19_Witness ==
    /\ sentiment_pipeline = Loaded
    /\ reply.inference = "timeout"
    /\ reply.status = 408
    /\ recorded = [requests |-> 1, errors |-> 1]
    /\ error_counts["request_timeout"] = 1
    /\ request_counts["http_error"] = 1
    /\ request_counts["success"] = 0

\* the step is a call of set_model that evicts an entry
EvictingStep ==
    /\ cache_op'.op = "set_model"
    /\ cache_op'.evicted # None
    /\ <<cache, access_times, clock, cache_op>>' # <<cache, access_times, clock, cache_op>>

\* C21: the entry a call of set_model evicts has the smallest access time
\* of the cache, and it is not the entry that a get_model hit has just
\* refreshed (the call being for another name).
C21_EvictsOldest ==
    [][EvictingStep =>
          /\ \A i \in 1..Len(access_times) :
                DictGet(access_times, cache_op'.evicted) <= access_times[i].v
          /\ (/\ cache_op.op = "get_model"
              /\ cache_op.result # None
              /\ cache_op'.name # cache_op.name)
                => cache_op'.evicted # cache_op.name]_vars

\* the model name of the call is already in the cache
NameIsCached == cache_op'.name \in DictKeys(cache)

\* C30: a call of set_model with a name the cache holds keeps the set of
\* cached names, stores the model under the name and refreshes the name's
\* access time.
C30_ResetKeepsOtherEntries ==
    [][(/\ cache_op'.op = "set_model"
        /\ <<cache, access_times, clock, cache_op>>' # <<cache, access_times, clock, cache_op>>
        /\ NameIsCached) =>
          /\ DictKeys(cache') = DictKeys(cache)
          /\ DictGet(cache', cache_op'.name) = cache_op'.model
          /\ DictGet(access_times', cache_op'.name) = clock']_vars

\* the methods a line of the streaming chat service can carry
Methods == {"rag_llm", "rag_no_llm", "no_context_found", "error"}

\* C22: after load_models the LLM is loaded exactly when its tokenizer is,
\* and a /chat response whose retrieval returned matches without an
\* exception has the method rag_llm or rag_no_llm, so that no_context_found
\* is answered only when retrieval returned no match.
C22_NoContextOnlyWhenNoMatch ==
    /\ phase = "serving" => (llm_model = Loaded <=> llm_tokenizer = Loaded)
    /\ last.op = "chat_endpoint" =>
          /\ (Matches # <<>> /\ last.resp.method # "error")
                => last.resp.method \in {"rag_llm", "rag_no_llm"}
          /\ last.resp.method = "no_context_found" => Matches = <<>>

\* /chat has answered from two matches without an LLM
C22_Witness ==
    /\ last.op = "chat_endpoint"
    /\ Len(Matches) = 2
    /\ llm_model = None
    /\ last.resp.method = "rag_no_llm"

\* C23: the stream of a /chat response of the streaming chat service has
\* exactly one JSON line, with one of the four methods, also when the
\* retrieval or the generation raised.
C23_OneJsonLine ==
    last.op = "chat_endpoint" =>
        /\ Len(last.resp.lines) = 1
        /\ last.resp.lines[1] \in Methods

\* /chat has answered a request whose retrieval raised with the one line
\* of method error
C23_Witness ==
    /\ last.op = "chat_endpoint"
    /\ last.out.raised
    /\ last.resp.lines = <<"error">>

\* C24: GET /metrics answers with a body, without raising, in every state
\* of the PerformanceMonitor, a monitor without a recorded request
\* included.
C24_MetricsAlwaysAnswers ==
    reply.inference = "metrics" => reply.status = 200

\* C25: while the service serves, the errors recorded on the monitor do
\* not exceed the requests recorded on it: analyze_sentiment calls
\* record_request once on every path on which it calls record_error.
C25_ErrorsWithinRequests ==
    phase = "serving" => ErrorsOfRun <= RequestsOfRun

\* C26: in a successful response truncated is true exactly when the text
\* given to the model was cut to max_length.
C26_TruncatedIffCut ==
    (reply.status = 200 /\ reply.inference = "ok") => (reply.truncated <=> reply.cut)

\* C27: for each email at most one register call succeeds, whatever the
\* order in which the register and login requests of the clients are
\* handled; a register for an email that is a key of users_db is answered
\* 400 and leaves users_db as it was.
C27_OneRegisterPerEmail ==
    [][\A c \in Clients :
          (/\ auth[c].pc = "pending"
           /\ auth[c].req.op = "register"
           /\ auth'[c].pc = "done")
             => /\ registered'[auth[c].req.email] <= 1
                /\ users_db[auth[c].req.email] # NoUser
                      => /\ auth'[c].outcome.status = 400
                         /\ users_db' = users_db]_vars

\* a register for an email has been answered 400 after another one for it
\* had succeeded
C27_Witness ==
    \E c \in Clients :
        /\ auth[c].pc = "done"
        /\ auth[c].req.op = "register"
        /\ auth[c].outcome.status = 400
        /\ registered[auth[c].req.email] = 1

\* the token of the request verifies and its email is a key of db
TokenOfUser(req, db) ==
    /\ req.token.signed
    /\ ~req.token.expired
    /\ req.token.email \in Emails
    /\ db[req.token.email] # NoUser

\* C28: a request to an endpoint guarded by get_current_user is served
\* when its token verifies and its email is a key of users_db as the
\* handler finds it, and is answered 401 otherwise; the user a served
\* request is served for is a key of users_db, so that get_profile finds
\* it.
C28_GuardedServedOr401 ==
    \A c \in Clients :
        (auth[c].pc = "done" /\ auth[c].req.op \in GuardedEndpoints) =>
            /\ auth[c].outcome.status =
                  (IF TokenOfUser(auth[c].req, auth[c].outcome.users_db) THEN 200 ELSE 401)
            /\ auth[c].outcome.status = 200 => users_db[auth[c].outcome.user] # NoUser

\* the threads whose handler is in load_model
Loading == {t \in Threads : worker[t].pc \in {"load", "test"}}

\* C29: load_model returns True at most once in a process, and a request
\* that arrived when sentiment_pipeline was set does not call load_model.
C29_LoadedAtMostOnce ==
    /\ loads <= 1
    /\ \A t \in Loading : ~worker[t].arrived_loaded

====
